---- MODULE Spec2Model ----
(***************************************************************************)
(* Model of main_pretrain.py: the command-line/config merge of parse(),    *)
(* and main(config) as one sequential process per rank, stepped at the     *)
(* statements that touch the file system, the monitoring writer or the     *)
(* collaborators (dataset, model, optimizer, epoch step, checkpoint store). *)
(***************************************************************************)
EXTENDS Integers, Sequences, FiniteSets, TLC

VARIABLES
    argv,        \* the parsed command line (argparse namespace), same for every rank
    yaml_file,   \* the mapping loaded from the YAML config file
    world_size,  \* number of cooperating processes
    stat_keys,   \* names of the statistics the epoch step returns
    proc,        \* per rank: the locals of parse()/main() and the program position
    files,       \* checkpoint files on disk: path -> snapshot
    dirs,        \* directories created by os.makedirs
    log_txt,     \* lines of <output_dir>/log.txt, in file order
    event_file,  \* monitoring stream on disk: epochs whose scalars were flushed
    runs,        \* history: the invocations so far, the last one is the current run
    saved        \* history: every save_model write, in order, with what the process held

vars == <<argv, yaml_file, world_size, stat_keys, proc, files, dirs, log_txt, event_file,
          runs, saved>>

(***************************************************************************)
(* Bounds of the model.                                                    *)
(***************************************************************************)
MaxEpochs == 3         \* start_epoch and train.epochs range over 0..MaxEpochs
CadenceEpochs == 45    \* the same range in the checkpoint-cadence specification
MaxRankEpochs == 2     \* train.epochs ranges over 1..MaxRankEpochs with several ranks
MaxScale == 3          \* batch_size, accum_iter and world size range over 1..MaxScale (learning rate)
MaxRuns == 2           \* invocations on one output directory

(***************************************************************************)
(* Python values.  An optional value (None, or a local not yet bound) is   *)
(* the empty tuple, a present value v is <<v>>.                            *)
(***************************************************************************)
None == <<>>
Some(v) == <<v>>
Val(o) == o[1]

\* Python truthiness of an argparse value: '' and 0 are falsy.
TruthyStr(s) == s # ""
TruthyInt(i) == i # 0

IntKeys == {"start_epoch"}

ArgKeys == {"config_path", "output_dir", "exp_name", "resume", "start_epoch"}

DefaultConfigPath == "./configs/pretrain/st_mem_vit_beta_base_12lead.yaml"

\* argparse defaults of parse()
ArgDefaults ==
    [k \in ArgKeys |->
        IF k = "config_path" THEN DefaultConfigPath
        ELSE IF k = "start_epoch" THEN 0
        ELSE ""]

\* the merge without the truthiness test: config.update(vars(args))
Truthy_NoTest(k, v) == TRUE

\* `if v:` of the merge loop, for the value v of key k
Truthy(k, v) == IF k \in IntKeys THEN TruthyInt(v) ELSE TruthyStr(v)

\* the keys the merge loop assigns
OverrideKeys(args) == {k \in DOMAIN args : Truthy(k, args[k])}

\* parse(): config = yaml.load(f); for k, v in vars(args).items(): if v: config[k] = v
parse(args, config) ==
    [k \in (DOMAIN config) \cup OverrideKeys(args) |->
        IF k \in OverrideKeys(args) THEN args[k] ELSE config[k]]

(***************************************************************************)
(* The learning rate is a float; the model keeps it exact, as a fraction   *)
(* <<numerator, denominator>> in lowest terms with a positive denominator. *)
(***************************************************************************)
RECURSIVE Gcd(_, _)
Gcd(a, b) == IF b = 0 THEN a ELSE Gcd(b, a % b)

Abs(x) == IF x < 0 THEN -x ELSE x

Frac(n, d) ==
    LET g == Gcd(Abs(n), Abs(d))
        s == IF d < 0 THEN -1 ELSE 1
    IN  <<(s * n) \div g, (s * d) \div g>>

FracMul(q, k) == Frac(q[1] * k, q[2])
FracDiv(q, k) == Frac(q[1], q[2] * k)

\* reference batch size of the linear scaling rule
BaseBatch == 256

\* the effective batch size without the world size
eff_batch_size_PerProcess(config, ws) ==
    config["dataloader"].batch_size * config["train"].accum_iter

\* eff_batch_size = batch_size * accum_iter * get_world_size()
eff_batch_size(config, ws) ==
    config["dataloader"].batch_size * config["train"].accum_iter * ws

\* the test written `if not config['train']['lr']`: a configured 0 is derived too
learning_rate_FalsyTest(config, ws) ==
    IF config["train"].lr = None \/ config["train"].lr = Some(<<0, 1>>)
    THEN Some(FracDiv(FracMul(config["train"].blr, eff_batch_size(config, ws)), 256))
    ELSE config["train"].lr

\* the derivation without the `is None` test
learning_rate_Always(config, ws) ==
    Some(FracDiv(FracMul(config["train"].blr, eff_batch_size(config, ws)), BaseBatch))

\* config['train']['lr'] after the `is None` test
learning_rate(config, ws) ==
    IF config["train"].lr = None
    THEN Some(FracDiv(FracMul(config["train"].blr, eff_batch_size(config, ws)), BaseBatch))
    ELSE config["train"].lr

(***************************************************************************)
(* Collaborators of util.misc and models.                                  *)
(***************************************************************************)
Ranks == 0 .. (world_size - 1)

is_main_process(r) == r = 0

get_world_size == world_size

SupportedModels == {"st_mem_vit_base"}

\* os.path.join(a, b) for relative b
PathJoin(a, b) == a \o "/" \o b

\* one file name for every epoch
CheckpointName_NoEpoch(epoch) == "checkpoint.pth"

CheckpointName(epoch) == "checkpoint-" \o ToString(epoch) \o ".pth"

EncoderName == "encoder_fft.pth"

\* a checkpoint is saved every CheckpointPeriod-th epoch
CheckpointPeriod == 20

\* the final-epoch test off by one: epoch == epochs
ShouldCheckpoint_OffByOne(epoch, epochs) ==
    epoch % 20 = 0 \/ epoch = epochs

\* epoch % 20 == 0 or epoch + 1 == config['train']['epochs']
ShouldCheckpoint(epoch, epochs) ==
    epoch % CheckpointPeriod = 0 \/ epoch + 1 = epochs

\* misc.save_model: writes one snapshot to save_path, replacing what is there
save_model(fs, save_path, snapshot) == (save_path :> snapshot) @@ fs

\* the bundle save_model serialises: optimizer and loss_scaler are None for a
\* component-only snapshot
Snapshot(config, epoch, model, optimizer, loss_scaler) ==
    [epoch |-> epoch, model |-> model, optimizer |-> optimizer,
     loss_scaler |-> loss_scaler, config |-> config]

\* the record without the train_ prefix on the statistics
LogStats_NoPrefix(train_stats, epoch) ==
    [n \in (DOMAIN train_stats) \cup {"epoch"} |->
        IF n = "epoch" THEN epoch ELSE train_stats[n]]

\* {**{f'train_{k}': v for k, v in train_stats.items()}, 'epoch': epoch}
LogStats(train_stats, epoch) ==
    LET prefixed == {"train_" \o k : k \in DOMAIN train_stats}
        key(n) == CHOOSE k \in DOMAIN train_stats : "train_" \o k = n
    IN  [n \in prefixed \cup {"epoch"} |->
            IF n = "epoch" THEN epoch ELSE train_stats[key(n)]]

(***************************************************************************)
(* One process.  p is the record of its locals; every step returns the new *)
(* record.                                                                 *)
(***************************************************************************)
Fresh ==
    [pc |-> "parse", config |-> <<>>, err |-> "", resumed |-> None,
     data_loader_train |-> None, output_dir |-> None, log_writer |-> None,
     model |-> None, optimizer |-> None, loss_scaler |-> None,
     epoch |-> None, train_stats |-> <<>>, trace |-> <<>>]

Raise(p, exc) == [p EXCEPT !.pc = "raised", !.err = exc]

Did(p, op, e) == [p EXCEPT !.trace = Append(@, [op |-> op, epoch |-> e])]

Step(r, q) == proc' = [proc EXCEPT ![r] = q]

\* rank r exists and its process is at the given position
At(r, label) == r \in Ranks /\ proc[r].pc = label

Env == <<argv, yaml_file, world_size, stat_keys, runs>>
Disk == <<files, dirs, log_txt, event_file, saved>>

\* the history entry of a write: the path, the run, and model, optimizer,
\* loss-scaler and epoch as the writing process holds them
Write(path, p) ==
    [path |-> path, run |-> Len(runs), epoch |-> Val(p.epoch),
     model |-> p.model, optimizer |-> p.optimizer, loss_scaler |-> p.loss_scaler]

\* __main__: config = parse()
Parse(r) ==
    /\ At(r, "parse")
    /\ Step(r, [proc[r] EXCEPT !.config = parse(argv, yaml_file), !.pc = "init"])
    /\ UNCHANGED <<Env, Disk>>

\* init_distributed_mode, seeding, build_dataset, get_dataloader
BuildData(r) ==
    /\ At(r, "init")
    /\ Step(r, [proc[r] EXCEPT !.data_loader_train = Some([sampler_epoch |-> None]),
                               !.pc = "output"])
    /\ UNCHANGED <<Env, Disk>>

\* the output directory set up on every rank
WantsOutput_AnyRank(r, config) == TruthyStr(config["output_dir"])

\* whether this process gets an output directory and a SummaryWriter
WantsOutput(r, config) == is_main_process(r) /\ TruthyStr(config["output_dir"])

\* if misc.is_main_process() and config['output_dir']: makedirs, SummaryWriter
MakeOutputDir(r) ==
    LET p == proc[r]
        c == p.config
        path == PathJoin(c["output_dir"], c["exp_name"])
    IN  /\ At(r, "output")
        /\ IF is_main_process(r) /\ "output_dir" \notin DOMAIN c
           THEN Step(r, Raise(p, "KeyError")) /\ UNCHANGED dirs
           ELSE IF WantsOutput(r, c)
           THEN IF "exp_name" \notin DOMAIN c
                THEN Step(r, Raise(p, "KeyError")) /\ UNCHANGED dirs
                ELSE /\ Step(r, [p EXCEPT !.output_dir = Some(path),
                                          !.log_writer = Some([pending |-> <<>>]),
                                          !.pc = "model"])
                     /\ dirs' = dirs \cup {path}
           ELSE Step(r, [p EXCEPT !.pc = "model"]) /\ UNCHANGED dirs
        /\ UNCHANGED <<Env, files, log_txt, event_file, saved>>

\* model lookup by name, ValueError for an unknown name, model.to(device)
BuildModel(r) ==
    LET p == proc[r]
    IN  /\ At(r, "model")
        /\ IF p.config["model_name"] \in SupportedModels
           THEN Step(r, [p EXCEPT !.model = Some(0), !.pc = "lr"])
           ELSE Step(r, Raise(p, "ValueError"))
        /\ UNCHANGED <<Env, Disk>>

\* effective batch size and the write-back of config['train']['lr']
DeriveLR(r) ==
    LET p == proc[r]
    IN  /\ At(r, "lr")
        /\ Step(r, [p EXCEPT !.config["train"].lr = learning_rate(p.config, get_world_size),
                             !.pc = "optimizer"])
        /\ UNCHANGED <<Env, Disk>>

\* DDP wrap, get_optimizer_from_config, NativeScaler()
BuildOptimizer(r) ==
    LET p == proc[r]
    IN  /\ At(r, "optimizer")
        /\ Step(r, [p EXCEPT !.optimizer = Some([lr |-> p.config["train"].lr, steps |-> 0]),
                             !.loss_scaler = Some(0),
                             !.pc = "resume"])
        /\ UNCHANGED <<Env, Disk>>

\* a load that also moves start_epoch one past the stored epoch
load_model_SetsStartEpoch(p, snapshot) ==
    [p EXCEPT !.model = Some(snapshot.model),
              !.optimizer = IF snapshot.optimizer = None THEN @ ELSE snapshot.optimizer,
              !.loss_scaler = IF snapshot.loss_scaler = None THEN @ ELSE snapshot.loss_scaler,
              !.resumed = Some(snapshot.epoch),
              !.config = [k \in DOMAIN @ \cup {"start_epoch"} |->
                             IF k = "start_epoch" THEN snapshot.epoch + 1 ELSE @[k]]]

\* what the load puts into the process from a snapshot: the values of model,
\* optimizer and loss-scaler that the snapshot has, and the epoch it reports
load_model(p, snapshot) ==
    [p EXCEPT !.model = Some(snapshot.model),
              !.optimizer = IF snapshot.optimizer = None THEN @ ELSE snapshot.optimizer,
              !.loss_scaler = IF snapshot.loss_scaler = None THEN @ ELSE snapshot.loss_scaler,
              !.resumed = Some(snapshot.epoch)]

\* misc.load_model: restores model, optimizer and loss-scaler from config['resume']
LoadModel(r) ==
    LET p == proc[r]
        c == p.config
        resume == IF "resume" \in DOMAIN c THEN c["resume"] ELSE ""
    IN  /\ At(r, "resume")
        /\ IF ~TruthyStr(resume)
           THEN Step(r, [p EXCEPT !.pc = "loop"])
           ELSE IF resume \notin DOMAIN files
           THEN Step(r, Raise(p, "FileNotFoundError"))
           ELSE Step(r, [load_model(p, files[resume]) EXCEPT !.pc = "loop"])
        /\ UNCHANGED <<Env, Disk>>

\* range(start_epoch + 1, epochs)
NextEpoch_SkipFirst(p) ==
    IF p.epoch = None THEN p.config["start_epoch"] + 1 ELSE Val(p.epoch) + 1

\* the next value of `for epoch in range(config['start_epoch'], config['train']['epochs'])`
NextEpoch(p) ==
    IF p.epoch = None THEN p.config["start_epoch"] ELSE Val(p.epoch) + 1

\* a loop body that writes the checkpoint of the epoch before it trains
EpochBegin_CheckpointFirst(r) ==
    LET p == proc[r]
        c == p.config
        e == NextEpoch(p)
        q == [p EXCEPT !.epoch = Some(e), !.pc = "train"]
        s == IF c["ddp"].distributed
             THEN Did([q EXCEPT !.data_loader_train = Some([sampler_epoch |-> Some(e)])],
                      "set_epoch", e)
             ELSE q
        path == PathJoin(Val(p.output_dir), "checkpoint-" \o ToString(e) \o ".pth")
    IN  /\ At(r, "loop")
        /\ IF "start_epoch" \notin DOMAIN c
           THEN Step(r, Raise(p, "KeyError")) /\ UNCHANGED <<files, saved>>
           ELSE IF e >= c["train"].epochs
           THEN Step(r, [p EXCEPT !.pc = "extract"]) /\ UNCHANGED <<files, saved>>
           ELSE IF p.output_dir # None /\ (e % 20 = 0 \/ e + 1 = c["train"].epochs)
           THEN /\ files' = (path :> [epoch |-> e, model |-> Val(p.model),
                                      optimizer |-> p.optimizer, loss_scaler |-> p.loss_scaler,
                                      config |-> c]) @@ files
                /\ saved' = Append(saved, Write(path, s))
                /\ Step(r, Did(s, "save_checkpoint", e))
           ELSE Step(r, s) /\ UNCHANGED <<files, saved>>
        /\ UNCHANGED <<Env, dirs, log_txt, event_file>>

\* loop head, and sampler.set_epoch(epoch) when distributed
EpochBegin(r) ==
    LET p == proc[r]
        c == p.config
        e == NextEpoch(p)
        q == [p EXCEPT !.epoch = Some(e), !.pc = "train"]
    IN  /\ At(r, "loop")
        /\ IF "start_epoch" \notin DOMAIN c
           THEN Step(r, Raise(p, "KeyError"))
           ELSE IF e >= c["train"].epochs
           THEN Step(r, [p EXCEPT !.pc = "extract"])
           ELSE IF c["ddp"].distributed
           THEN Step(r, Did([q EXCEPT !.data_loader_train = Some([sampler_epoch |-> Some(e)])],
                            "set_epoch", e))
           ELSE Step(r, q)
        /\ UNCHANGED <<Env, Disk>>

\* what train_one_epoch leaves behind when it returns: one more epoch of updates
\* on model, optimizer and loss-scaler, the epoch's scalars handed to the
\* monitoring writer, and the statistics it returns
train_one_epoch(p, keys) ==
    LET e == Val(p.epoch)
    IN  [p EXCEPT !.model = Some(Val(@) + 1),
                  !.optimizer = Some([Val(@) EXCEPT !.steps = @ + 1]),
                  !.loss_scaler = Some(Val(@) + 1),
                  !.log_writer = IF @ = None THEN @
                                 ELSE Some([pending |-> Append(Val(@).pending, e)]),
                  !.train_stats = [k \in keys |-> e]]

\* train_stats = train_one_epoch(...) returns
TrainOneEpoch(r) ==
    LET p == proc[r]
    IN  /\ At(r, "train")
        /\ Step(r, Did([train_one_epoch(p, stat_keys) EXCEPT !.pc = "checkpoint"],
                       "train", Val(p.epoch)))
        /\ UNCHANGED <<Env, Disk>>

\* the failure caught in the loop and the epoch skipped
TrainOneEpochRaises_Skip(r) ==
    /\ At(r, "train")
    /\ Step(r, [proc[r] EXCEPT !.err = "EpochStepError", !.pc = "loop"])
    /\ UNCHANGED <<Env, Disk>>

\* train_one_epoch(...) raises: nothing in main() catches it
TrainOneEpochRaises(r) ==
    LET p == proc[r]
    IN  /\ At(r, "train")
        /\ Step(r, Raise(p, "EpochStepError"))
        /\ UNCHANGED <<Env, Disk>>

\* a checkpoint of the model alone
FullSnapshot_ModelOnly(p) == Snapshot(p.config, Val(p.epoch), Val(p.model), None, None)

\* save_model(config, path, epoch, model_without_ddp, optimizer, loss_scaler)
FullSnapshot(p) == Snapshot(p.config, Val(p.epoch), Val(p.model), p.optimizer, p.loss_scaler)

\* if output_dir and (epoch % 20 == 0 or epoch + 1 == epochs): misc.save_model(...)
SaveCheckpoint(r) ==
    LET p == proc[r]
        e == Val(p.epoch)
        path == PathJoin(Val(p.output_dir), CheckpointName(e))
    IN  /\ At(r, "checkpoint")
        /\ IF p.output_dir # None /\ ShouldCheckpoint(e, p.config["train"].epochs)
           THEN /\ files' = save_model(files, path, FullSnapshot(p))
                /\ saved' = Append(saved, Write(path, p))
                /\ Step(r, Did([p EXCEPT !.pc = "flush"], "save_checkpoint", e))
           ELSE /\ UNCHANGED <<files, saved>>
                /\ Step(r, [p EXCEPT !.pc = "flush"])
        /\ UNCHANGED <<Env, dirs, log_txt, event_file>>

\* `if output_dir and misc.is_main_process():` of the log block
LogsHere(r, p) == p.output_dir # None /\ is_main_process(r)

\* the log block without the flush
FlushLogWriter_Missing(r) ==
    /\ At(r, "flush")
    /\ Step(r, [proc[r] EXCEPT !.pc = "append"])
    /\ UNCHANGED <<Env, Disk>>

\* if log_writer is not None: log_writer.flush()
FlushLogWriter(r) ==
    LET p == proc[r]
        e == Val(p.epoch)
    IN  /\ At(r, "flush")
        /\ IF LogsHere(r, p) /\ p.log_writer # None
           THEN /\ event_file' = event_file \o Val(p.log_writer).pending
                /\ Step(r, Did([p EXCEPT !.log_writer = Some([pending |-> <<>>]),
                                         !.pc = "append"], "flush", e))
           ELSE /\ UNCHANGED event_file
                /\ Step(r, [p EXCEPT !.pc = "append"])
        /\ UNCHANGED <<Env, files, dirs, log_txt, saved>>

\* log.txt opened with mode 'w'
AppendLog_Truncate(r) ==
    LET p == proc[r]
        e == Val(p.epoch)
    IN  /\ At(r, "append")
        /\ IF p.output_dir # None /\ is_main_process(r)
           THEN /\ log_txt' = <<LogStats(p.train_stats, e)>>
                /\ Step(r, Did([p EXCEPT !.pc = "loop"], "append_log", e))
           ELSE /\ UNCHANGED log_txt
                /\ Step(r, [p EXCEPT !.pc = "loop"])
        /\ UNCHANGED <<Env, files, dirs, event_file, saved>>

\* with open(log.txt, 'a') as f: f.write(json.dumps(log_stats) + '\n')
AppendLog(r) ==
    LET p == proc[r]
        e == Val(p.epoch)
    IN  /\ At(r, "append")
        /\ IF LogsHere(r, p)
           THEN /\ log_txt' = Append(log_txt, LogStats(p.train_stats, e))
                /\ Step(r, Did([p EXCEPT !.pc = "loop"], "append_log", e))
           ELSE /\ UNCHANGED log_txt
                /\ Step(r, [p EXCEPT !.pc = "loop"])
        /\ UNCHANGED <<Env, files, dirs, event_file, saved>>

\* encoder = model_without_ddp.encoder; if output_dir: save_model(..., epoch, encoder)
ExtractEncoder(r) ==
    LET p == proc[r]
        path == PathJoin(Val(p.output_dir), EncoderName)
    IN  /\ At(r, "extract")
        /\ IF p.output_dir = None
           THEN Step(r, [p EXCEPT !.pc = "done"]) /\ UNCHANGED <<files, saved>>
           ELSE IF p.epoch = None
           THEN Step(r, Raise(p, "UnboundLocalError")) /\ UNCHANGED <<files, saved>>
           ELSE /\ files' = save_model(files, path,
                                Snapshot(p.config, Val(p.epoch), Val(p.model), None, None))
                /\ saved' = Append(saved, Write(path, [p EXCEPT !.optimizer = None,
                                                                !.loss_scaler = None]))
                /\ Step(r, Did([p EXCEPT !.pc = "done"], "save_encoder", Val(p.epoch)))
        /\ UNCHANGED <<Env, dirs, log_txt, event_file>>

(***************************************************************************)
(* Inputs of a run.                                                        *)
(***************************************************************************)
MergeKeys == {"output_dir", "exp_name", "resume", "start_epoch"}
StrKeys == MergeKeys \ IntKeys

\* the command line: config_path keeps its default, a key not given keeps its default
Args(strs, start_epoch) ==
    [k \in ArgKeys |->
        IF k = "config_path" THEN ArgDefaults[k]
        ELSE IF k = "start_epoch" THEN start_epoch
        ELSE strs[k]]

NoStrs == [k \in StrKeys |-> ArgDefaults[k]]

\* the config file: the keys of present among the overridable ones, and the rest
Yaml(present, strs, start_epoch, distributed, batch_size, model_name, train) ==
    [k \in {"ddp", "dataloader", "model_name", "train"} \cup present |->
        CASE k = "ddp" -> [distributed |-> distributed]
          [] k = "dataloader" -> [batch_size |-> batch_size]
          [] k = "model_name" -> model_name
          [] k = "train" -> train
          [] k = "start_epoch" -> start_epoch
          [] OTHER -> strs[k]]

Train(accum_iter, lr, blr, epochs) ==
    [accum_iter |-> accum_iter, lr |-> lr, blr |-> blr, epochs |-> epochs]

\* a full snapshot left in another directory by an earlier run
PrevCheckpoint == "prev/checkpoint-0.pth"
PrevFiles ==
    PrevCheckpoint :> Snapshot(<<>>, 0, 7, Some([lr |-> Some(<<1, 1000>>), steps |-> 7]), Some(7))

Start(args, yaml, ws, keys) ==
    /\ argv = args
    /\ yaml_file = yaml
    /\ world_size = ws
    /\ stat_keys = keys
    /\ proc = [r \in 0 .. (ws - 1) |-> Fresh]
    /\ files = PrevFiles
    /\ dirs = {}
    /\ log_txt = <<>>
    /\ event_file = <<>>
    /\ runs = <<[kind |-> "first", argv |-> args, logged |-> 0]>>
    /\ saved = <<>>

ModelNames == {"st_mem_vit_base", "resnet"}
StatKeySets == {{"loss"}, {"loss", "lr"}}
BaseLR == <<3, 2000>>

\* one process, every kind of configuration, few epochs
Init ==
    \E od \in {"", "out"}, fstart \in {0, 1}, astart \in 0 .. MaxEpochs,
       epochs \in 0 .. MaxEpochs, mn \in ModelNames, dist \in BOOLEAN,
       res \in {"", PrevCheckpoint, "prev/none.pth"}, keys \in StatKeySets :
        Start(Args([NoStrs EXCEPT !["output_dir"] = od, !["resume"] = res], astart),
              Yaml(MergeKeys, [NoStrs EXCEPT !["exp_name"] = "exp"], fstart,
                   dist, 2, mn, Train(1, None, BaseLR, epochs)),
              1, keys)

\* one process, long runs
InitCadence ==
    \E od \in {"", "out"}, astart \in 0 .. CadenceEpochs, epochs \in 0 .. CadenceEpochs :
        Start(Args([NoStrs EXCEPT !["output_dir"] = od], astart),
              Yaml(MergeKeys, [NoStrs EXCEPT !["exp_name"] = "exp"], 0,
                   FALSE, 2, "st_mem_vit_base", Train(1, None, BaseLR, epochs)),
              1, {"loss"})

RankWorlds == {3}

\* several ranks started with the same command line and config file
InitRanks ==
    \E ws \in RankWorlds, od \in {"", "out"}, epochs \in 1 .. MaxRankEpochs, mn \in ModelNames :
        Start(Args([NoStrs EXCEPT !["output_dir"] = od], 0),
              Yaml(MergeKeys, [NoStrs EXCEPT !["exp_name"] = "exp"], 0,
                   TRUE, 2, mn, Train(1, None, BaseLR, epochs)),
              ws, {"loss"})

LRChoices == {None, Some(<<0, 1>>), Some(<<1, 1000>>)}
BaseLRs == {<<3, 2000>>, <<1, 1000>>, <<1, 3>>}

\* the inputs of the learning-rate derivation
InitLR ==
    \E ws \in 1 .. MaxScale, bs \in 1 .. MaxScale, ai \in 1 .. MaxScale,
       lr \in LRChoices, blr \in BaseLRs :
        Start(Args(NoStrs, 0),
              Yaml(MergeKeys, NoStrs, 0, ws > 1, bs, "st_mem_vit_base", Train(ai, lr, blr, 1)),
              ws, {"loss"})

FileStrs == [StrKeys -> {"", "cfg"}]
ArgStrs == [StrKeys -> {"", "cli"}]

\* the inputs of the merge: any subset of the overridable keys in the file
InitParse ==
    \E present \in SUBSET MergeKeys, fs \in FileStrs, fstart \in {0, 5},
       as \in ArgStrs, astart \in {-1, 0, 10} :
        Start(Args(as, astart),
              Yaml(present, fs, fstart, FALSE, 2, "st_mem_vit_base", Train(1, None, BaseLR, 1)),
              1, {"loss"})

RankIds == 0 .. (MaxScale - 1)

Setup(r) ==
    \/ Parse(r)
    \/ BuildData(r)
    \/ MakeOutputDir(r)
    \/ BuildModel(r)
    \/ DeriveLR(r)
    \/ BuildOptimizer(r)

Next ==
    \E r \in RankIds :
        \/ Setup(r)
        \/ LoadModel(r)
        \/ EpochBegin(r)
        \/ TrainOneEpoch(r)
        \/ TrainOneEpochRaises(r)
        \/ SaveCheckpoint(r)
        \/ FlushLogWriter(r)
        \/ AppendLog(r)
        \/ ExtractEncoder(r)

NextLR == \E r \in RankIds : Setup(r)

NextParse == \E r \in RankIds : Parse(r)

Spec == Init /\ [][Next]_vars
SpecCadence == InitCadence /\ [][Next]_vars
SpecRanks == InitRanks /\ [][Next]_vars
SpecLR == InitLR /\ [][NextLR]_vars
SpecParse == InitParse /\ [][NextParse]_vars

(***************************************************************************)
(* What the claims speak of, read off the inputs and the traces.           *)
(***************************************************************************)
\* the value the run uses for an overridable key: the command line's unless it is
\* empty or zero, else the config file's
UsedStr(k) == IF argv[k] # "" THEN argv[k] ELSE yaml_file[k]
UsedStart == IF argv["start_epoch"] # 0 THEN argv["start_epoch"] ELSE yaml_file["start_epoch"]
TotalEpochs == yaml_file["train"].epochs

OutputConfigured == UsedStr("output_dir") # ""
OutDir == UsedStr("output_dir") \o "/" \o UsedStr("exp_name")
CheckpointFile(e) == OutDir \o "/checkpoint-" \o ToString(e) \o ".pth"
EncoderFile == OutDir \o "/encoder_fft.pth"

\* how often rank r did op for epoch e, and whether it did op at all
Count(r, op, e) ==
    Cardinality({i \in 1 .. Len(proc[r].trace) :
                    proc[r].trace[i].op = op /\ proc[r].trace[i].epoch = e})
Ever(r, op) == \E i \in 1 .. Len(proc[r].trace) : proc[r].trace[i].op = op

\* the position of the first op for epoch e in the trace of rank r, 0 if none
Pos(r, op, e) ==
    LET hits == {i \in 1 .. Len(proc[r].trace) :
                    proc[r].trace[i].op = op /\ proc[r].trace[i].epoch = e}
    IN  IF hits = {} THEN 0 ELSE CHOOSE i \in hits : \A j \in hits : i <= j

\* the epoch loop of rank r has run to its end
LoopOver(r) ==
    proc[r].pc \in {"extract", "done"} \/ proc[r].err = "UnboundLocalError"

EpochRange == 0 .. (CadenceEpochs + MaxEpochs + 1)

\* the files of the output directory written in this run, but for the encoder artifact
CheckpointFiles == DOMAIN files \ (DOMAIN PrevFiles \cup {EncoderFile})

\* the epochs whose checkpoint file is in the output directory
Checkpointed == {files[f].epoch : f \in CheckpointFiles}

\* the epochs for which rank r wrote a checkpoint, in the order of the writes
Saves(r) ==
    LET IsSave(ev) == ev.op = "save_checkpoint"
        saves == SelectSeq(proc[r].trace, IsSave)
    IN  [i \in 1 .. Len(saves) |-> saves[i].epoch]

\* the epochs the checkpoint policy names
PolicyEpochs ==
    {e \in EpochRange : /\ UsedStart <= e /\ e < TotalEpochs
                        /\ (e % 20 = 0 \/ e = TotalEpochs - 1)}

(***************************************************************************)
(* C1: with an output directory configured, the main process writes        *)
(* checkpoint-<e>.pth exactly for the epochs e of [start_epoch, epochs)    *)
(* with e mod 20 = 0 or e = epochs - 1: never for another epoch, each once *)
(* and under the name of the epoch it holds, and all of them once the loop *)
(* is over.                                                                *)
(***************************************************************************)
C1_CheckpointCadence ==
    OutputConfigured =>
        LET saves == Saves(0)
        IN  /\ Checkpointed \subseteq PolicyEpochs
            /\ \A f \in CheckpointFiles : f = CheckpointFile(files[f].epoch)
            /\ {saves[i] : i \in 1 .. Len(saves)} = Checkpointed
            /\ Len(saves) = Cardinality(Checkpointed)
            /\ LoopOver(0) => Checkpointed = PolicyEpochs

C1_Witness ==
    /\ OutputConfigured /\ UsedStart = 0 /\ TotalEpochs = 45
    /\ proc[0].pc = "done"
    /\ Checkpointed = {0, 20, 40, 44}

(***************************************************************************)
(* C2: in a run of several ranks only rank 0 ever writes a checkpoint or   *)
(* the encoder artifact, flushes the monitoring stream or appends to       *)
(* log.txt; what is on disk is what rank 0 wrote.                          *)
(***************************************************************************)
SideEffects == {"save_checkpoint", "save_encoder", "flush", "append_log"}

C2_MainProcessGating ==
    /\ \A r \in Ranks \ {0} :
          /\ \A i \in 1 .. Len(proc[r].trace) : proc[r].trace[i].op \notin SideEffects
          /\ proc[r].output_dir = None /\ proc[r].log_writer = None
    /\ Len(log_txt) =
          Cardinality({i \in 1 .. Len(proc[0].trace) : proc[0].trace[i].op = "append_log"})

C2_Witness ==
    /\ world_size = 3
    /\ \A r \in Ranks : proc[r].pc = "done"
    /\ Ever(0, "save_checkpoint") /\ Ever(0, "save_encoder")
    /\ Ever(0, "flush") /\ Ever(0, "append_log")
    /\ Ever(1, "train") /\ Ever(2, "train")

(***************************************************************************)
(* C3: parse() merges by the falsy-skip rule: for output_dir, exp_name,    *)
(* resume and start_epoch the merged value is the override when the        *)
(* override is a non-empty string or a non-zero integer, and whatever the  *)
(* config file has (a value or nothing) otherwise; file 5 with override 0  *)
(* gives 5, with override 10 gives 10.                                     *)
(***************************************************************************)
Given(k) == IF k = "start_epoch" THEN argv[k] # 0 ELSE argv[k] # ""

C3_FalsySkipMerge ==
    proc[0].pc # "parse" =>
        LET config == proc[0].config
        IN  /\ \A k \in MergeKeys :
                  IF Given(k)
                  THEN k \in DOMAIN config /\ config[k] = argv[k]
                  ELSE IF k \in DOMAIN yaml_file
                  THEN k \in DOMAIN config /\ config[k] = yaml_file[k]
                  ELSE k \notin DOMAIN config
            /\ ("start_epoch" \in DOMAIN yaml_file /\ yaml_file["start_epoch"] = 5) =>
                  /\ argv["start_epoch"] = 0 => config["start_epoch"] = 5
                  /\ argv["start_epoch"] = 10 => config["start_epoch"] = 10

C3_Witness ==
    /\ proc[0].pc # "parse"
    /\ "start_epoch" \in DOMAIN yaml_file /\ yaml_file["start_epoch"] = 5
    /\ argv["start_epoch"] = 0 /\ proc[0].config["start_epoch"] = 5
    /\ argv["output_dir"] = "cli" /\ proc[0].config["output_dir"] = "cli"
    /\ argv["resume"] = "" /\ "resume" \notin DOMAIN proc[0].config

(***************************************************************************)
(* C4: with train.lr unset, the learning rate written back and given to    *)
(* the optimizer is blr * batch_size * accum_iter * world_size / 256, and  *)
(* doubling batch_size, accum_iter or world_size alone doubles it.         *)
(***************************************************************************)
LRDerived(r) == proc[r].pc \in {"optimizer", "resume"}

\* fractions a and b with b = k * a
Times(k, a, b) == b[1] * a[2] = k * a[1] * b[2]

C4_LinearScaling ==
    \A r \in Ranks :
        (yaml_file["train"].lr = None /\ LRDerived(r)) =>
            LET lr == Val(proc[r].config["train"].lr)
                blr == yaml_file["train"].blr
                b == yaml_file["dataloader"].batch_size
                a == yaml_file["train"].accum_iter
                w == world_size
                twiceB == [yaml_file EXCEPT !["dataloader"].batch_size = 2 * b]
                twiceA == [yaml_file EXCEPT !["train"].accum_iter = 2 * a]
            IN  /\ lr[2] > 0
                /\ lr[1] * (blr[2] * 256) = (blr[1] * b * a * w) * lr[2]
                /\ proc[r].pc = "resume" => Val(proc[r].optimizer).lr = Some(lr)
                /\ Times(2, lr, Val(learning_rate(twiceB, w)))
                /\ Times(2, lr, Val(learning_rate(twiceA, w)))
                /\ Times(2, lr, Val(learning_rate(yaml_file, 2 * w)))

C4_Witness ==
    /\ world_size = 3 /\ yaml_file["train"].lr = None
    /\ yaml_file["dataloader"].batch_size = 2 /\ yaml_file["train"].accum_iter = 3
    /\ yaml_file["train"].blr = <<1, 1000>>
    /\ proc[2].pc = "resume"
    /\ Val(proc[2].optimizer).lr = Some(<<9, 128000>>)

(***************************************************************************)
(* C5: with train.lr set, 0 included, the learning rate given to the       *)
(* optimizer is that value, whatever batch_size, accum_iter, world_size    *)
(* and blr are.                                                            *)
(***************************************************************************)
C5_ExplicitLR ==
    \A r \in Ranks :
        (yaml_file["train"].lr # None /\ LRDerived(r)) =>
            /\ proc[r].config["train"].lr = yaml_file["train"].lr
            /\ proc[r].pc = "resume" => Val(proc[r].optimizer).lr = yaml_file["train"].lr

C5_Witness ==
    /\ world_size = 3 /\ yaml_file["train"].lr = Some(<<0, 1>>)
    /\ yaml_file["dataloader"].batch_size = 2 /\ yaml_file["train"].accum_iter = 3
    /\ proc[0].pc = "resume"
    /\ Val(proc[0].optimizer).lr = Some(<<0, 1>>)

(***************************************************************************)
(* C6: in a run with an output directory that completes, log.txt holds     *)
(* exactly one record per epoch of [start_epoch, epochs), in increasing    *)
(* epoch order, each with the field epoch and one train_<name> field per   *)
(* statistic the epoch step returned; while the run is under way the file  *)
(* is a prefix of that.                                                    *)
(***************************************************************************)
C6_LogRecords ==
    OutputConfigured =>
        /\ \A i \in 1 .. Len(log_txt) :
              /\ DOMAIN log_txt[i] = {"epoch"} \cup {"train_" \o k : k \in stat_keys}
              /\ log_txt[i]["epoch"] = UsedStart + i - 1
              /\ \A k \in stat_keys : log_txt[i]["train_" \o k] = UsedStart + i - 1
        /\ Len(log_txt) <= TotalEpochs - UsedStart \/ Len(log_txt) = 0
        /\ proc[0].pc = "done" => Len(log_txt) = TotalEpochs - UsedStart

C6_Witness ==
    /\ OutputConfigured /\ UsedStart = 0 /\ TotalEpochs = 2
    /\ proc[0].pc = "done"
    /\ Len(log_txt) = 2
    /\ log_txt[1]["epoch"] = 0 /\ log_txt[2]["epoch"] = 1
    /\ "train_loss" \in DOMAIN log_txt[1] /\ "train_loss" \in DOMAIN log_txt[2]

(***************************************************************************)
(* C7: a run whose model is supported, whose resume file (if any) exists   *)
(* and whose epoch steps all return ends normally, the empty epoch range   *)
(* included, and then encoder_fft.pth exists exactly when an output        *)
(* directory was configured, written once and tagged with the last epoch.  *)
(***************************************************************************)
C7_RunCompletes ==
    proc[0].err \notin {"ValueError", "FileNotFoundError", "EpochStepError"} =>
        /\ proc[0].pc # "raised"
        /\ proc[0].pc = "done" =>
              /\ (EncoderFile \in DOMAIN files) <=> OutputConfigured
              /\ OutputConfigured =>
                    /\ Cardinality({i \in 1 .. Len(proc[0].trace) :
                                       proc[0].trace[i].op = "save_encoder"}) = 1
                    /\ files[EncoderFile].epoch = TotalEpochs - 1

(***************************************************************************)
(* C8: an unsupported model name raises ValueError before anything has     *)
(* been allocated: no dataset or dataloader, no output directory, no       *)
(* monitoring writer, no model, optimizer or loss-scaler.                  *)
(***************************************************************************)
C8_FailFast ==
    proc[0].err = "ValueError" =>
        /\ proc[0].data_loader_train = None
        /\ dirs = {} /\ proc[0].output_dir = None /\ proc[0].log_writer = None
        /\ proc[0].model = None /\ proc[0].optimizer = None /\ proc[0].loss_scaler = None

(***************************************************************************)
(* C9: an epoch step that raises in epoch e ends the run there: the        *)
(* process stays where it failed, and afterwards there is no checkpoint    *)
(* and no log record for e or a later epoch, no encoder artifact, and      *)
(* nothing on disk changes.                                                *)
(***************************************************************************)
Failed(r) == proc[r].err = "EpochStepError"

C9_State ==
    Failed(0) =>
        LET e == Val(proc[0].epoch)
        IN  /\ proc[0].pc = "raised"
            /\ \A i \in 1 .. Len(proc[0].trace) :
                  \/ proc[0].trace[i].epoch < e
                  \/ proc[0].trace[i].op = "set_epoch" /\ proc[0].trace[i].epoch = e
            /\ \A f \in CheckpointFiles : files[f].epoch < e
            /\ EncoderFile \notin DOMAIN files
            /\ \A i \in 1 .. Len(log_txt) : log_txt[i]["epoch"] < e
            /\ \A i \in 1 .. Len(event_file) : event_file[i] < e

C9_AbortOnFailure ==
    /\ []C9_State
    /\ [][Failed(0) => UNCHANGED <<proc, files, dirs, log_txt, event_file>>]_vars

C9_Witness ==
    /\ Failed(0) /\ OutputConfigured
    /\ proc[0].epoch = Some(2) /\ UsedStart = 0 /\ TotalEpochs = 3
    /\ Len(log_txt) = 2 /\ Checkpointed = {0}

(***************************************************************************)
(* C10: on the main process with an output directory, the monitoring       *)
(* stream is flushed once per epoch, after that epoch's training step has  *)
(* returned and before that epoch's record is appended to log.txt.         *)
(***************************************************************************)
C10_FlushOrder ==
    OutputConfigured =>
        \A e \in 0 .. MaxEpochs + 1 :
            /\ Count(0, "flush", e) <= 1
            /\ Count(0, "append_log", e) <= 1
            /\ Count(0, "flush", e) = 1 =>
                  /\ Pos(0, "train", e) > 0
                  /\ Pos(0, "train", e) < Pos(0, "flush", e)
            /\ Count(0, "append_log", e) = 1 =>
                  /\ Count(0, "flush", e) = 1
                  /\ Pos(0, "flush", e) < Pos(0, "append_log", e)
            /\ (proc[0].pc = "done" /\ UsedStart <= e /\ e < TotalEpochs) =>
                  /\ Count(0, "flush", e) = 1
                  /\ Cardinality({i \in 1 .. Len(event_file) : event_file[i] = e}) = 1

C10_Witness ==
    /\ OutputConfigured /\ UsedStart = 0 /\ TotalEpochs = 2
    /\ proc[0].pc = "append" /\ proc[0].epoch = Some(1)
    /\ Count(0, "flush", 0) = 1 /\ Count(0, "flush", 1) = 1
    /\ Count(0, "append_log", 0) = 1 /\ Count(0, "append_log", 1) = 0

(***************************************************************************)
(* Several invocations on one output directory.  A process can be killed   *)
(* between any two steps; what it held in memory is gone, what is on disk  *)
(* stays.  The caller then starts the program again: with resume at the    *)
(* last checkpoint written and start_epoch one past its epoch, or with the *)
(* command line of the run before.                                         *)
(***************************************************************************)
Terminal(p) == p.pc \in {"done", "raised", "killed"}

Kill(r) ==
    /\ r \in Ranks
    /\ ~Terminal(proc[r])
    /\ Step(r, [proc[r] EXCEPT !.pc = "killed"])
    /\ UNCHANGED <<Env, Disk>>

IsCheckpoint(w) == w.path # EncoderFile

\* the last checkpoint write on record
LastCheckpoint ==
    LET cs == SelectSeq(saved, IsCheckpoint)
    IN  cs[Len(cs)]

Invoke(kind, args) ==
    /\ \A r \in Ranks : Terminal(proc[r])
    /\ Len(runs) < MaxRuns
    /\ argv' = args
    /\ runs' = Append(runs, [kind |-> kind, argv |-> args, logged |-> Len(log_txt)])
    /\ proc' = [r \in Ranks |-> Fresh]
    /\ UNCHANGED <<yaml_file, world_size, stat_keys, Disk>>

\* after a kill: --resume <last checkpoint> --start_epoch <its epoch + 1>
ResumeRun ==
    /\ proc[0].pc = "killed"
    /\ SelectSeq(saved, IsCheckpoint) # <<>>
    /\ Invoke("resume", [argv EXCEPT !["resume"] = LastCheckpoint.path,
                                     !["start_epoch"] = LastCheckpoint.epoch + 1])

\* the same command line once more
RunAgain ==
    /\ \A r \in Ranks : Terminal(proc[r])
    /\ Invoke("again", argv)

\* one process that writes to out/exp
InitRestart ==
    \E astart \in {0, 1}, epochs \in 0 .. MaxEpochs :
        Start(Args([NoStrs EXCEPT !["output_dir"] = "out"], astart),
              Yaml(MergeKeys, [NoStrs EXCEPT !["exp_name"] = "exp"], 0,
                   FALSE, 2, "st_mem_vit_base", Train(1, None, BaseLR, epochs)),
              1, {"loss"})

NextRestart ==
    \/ Next
    \/ \E r \in RankIds : Kill(r)
    \/ ResumeRun
    \/ RunAgain

SpecRestart == InitRestart /\ [][NextRestart]_vars

\* the epochs flushed to the monitoring stream, and those with a record in log.txt
Flushed == {event_file[i] : i \in 1 .. Len(event_file)}
Logged == {log_txt[i]["epoch"] : i \in 1 .. Len(log_txt)}

(***************************************************************************)
(* C11 as stated: in every reachable state, a killed process included,     *)
(* every epoch flushed to the monitoring stream has its record in log.txt. *)
(***************************************************************************)
C11_StreamNotAhead == Flushed \subseteq Logged

(***************************************************************************)
(* C11, amended: the flush of an epoch comes before its log write, so it   *)
(* is log.txt that is never ahead: every epoch with a record in log.txt    *)
(* has been flushed to the monitoring stream, in every reachable state, a  *)
(* killed process included; in a first run the stream is ahead of log.txt  *)
(* by at most one epoch, the one flushed last.                             *)
(***************************************************************************)
C11_LogNotAhead ==
    /\ Logged \subseteq Flushed
    /\ Len(runs) = 1 => \A e \in Flushed \ Logged : e = event_file[Len(event_file)]

C11_Witness ==
    /\ proc[0].pc = "killed"
    /\ Flushed = {0, 1} /\ Logged = {0}

(***************************************************************************)
(* C12 as stated: over any sequence of runs on one output directory no     *)
(* checkpoint-<e>.pth or encoder_fft.pth that exists is written again or   *)
(* removed.                                                                *)
(***************************************************************************)
C12_NeverRewritten ==
    /\ \A i \in 1 .. Len(saved) : saved[i].path \in DOMAIN files
    /\ \A i, j \in 1 .. Len(saved) : i < j => saved[i].path # saved[j].path

(***************************************************************************)
(* C12, amended: no checkpoint-<e>.pth or encoder_fft.pth is ever removed, *)
(* none is written twice by one run, and a run re-invoked after a kill     *)
(* with resume at the last checkpoint and start_epoch one past it writes   *)
(* no file the killed run wrote.  A run started again with the command     *)
(* line of the run before writes the files of that run again.              *)
(***************************************************************************)
C12_WriteOncePerRun ==
    /\ \A i \in 1 .. Len(saved) : saved[i].path \in DOMAIN files
    /\ \A i, j \in 1 .. Len(saved) :
          (i < j /\ saved[i].path = saved[j].path) =>
              /\ saved[i].run < saved[j].run
              /\ ~(runs[saved[j].run].kind = "resume" /\ saved[i].run = saved[j].run - 1)

C12_Witness ==
    /\ Len(runs) = 2 /\ runs[2].kind = "resume" /\ proc[0].pc = "done"
    /\ Len(saved) = 3
    /\ saved[1].path = CheckpointFile(0) /\ saved[1].run = 1
    /\ saved[2].path = CheckpointFile(2) /\ saved[2].run = 2
    /\ saved[3].path = EncoderFile /\ saved[3].run = 2

\* the set_epoch and training steps of rank r, in the order it did them
IsEpochStep(ev) == ev.op \in {"set_epoch", "train"}
EpochSteps(r) ==
    LET steps == SelectSeq(proc[r].trace, IsEpochStep)
    IN  [i \in 1 .. Len(steps) |-> [op |-> steps[i].op, epoch |-> steps[i].epoch]]

\* set_epoch(e), train(e) for e = start_epoch, start_epoch + 1, ..., epochs - 1
EpochSchedule ==
    [k \in 1 .. 2 * (IF TotalEpochs > UsedStart THEN TotalEpochs - UsedStart ELSE 0) |->
        [op |-> IF k % 2 = 1 THEN "set_epoch" ELSE "train",
         epoch |-> UsedStart + ((k - 1) \div 2)]]

(***************************************************************************)
(* C13: in a distributed run every rank, main or not, does set_epoch(e)    *)
(* and then the training step for e = start_epoch, ..., epochs - 1 in      *)
(* increasing order and once each: what a rank has done is always an       *)
(* initial part of that sequence, all of it once its loop is over, and the *)
(* writes of the main rank leave its sequence the same as the others'.     *)
(***************************************************************************)
C13_SameEpochSteps ==
    \A r \in Ranks :
        LET steps == EpochSteps(r)
        IN  /\ Len(steps) <= Len(EpochSchedule)
            /\ \A k \in 1 .. Len(steps) : steps[k] = EpochSchedule[k]
            /\ LoopOver(r) => Len(steps) = Len(EpochSchedule)
            /\ (LoopOver(r) /\ LoopOver(0)) => steps = EpochSteps(0)

C13_Witness ==
    /\ world_size = 3 /\ TotalEpochs = 2 /\ OutputConfigured
    /\ \A r \in Ranks : proc[r].pc = "done" /\ Len(EpochSteps(r)) = 4
    /\ Ever(0, "save_checkpoint") /\ Ever(0, "append_log")
    /\ ~Ever(1, "append_log")

ResumeConfigured == UsedStr("resume") # ""
BeforeLoop == {"parse", "init", "output", "model", "lr", "optimizer", "resume"}

(***************************************************************************)
(* C14: with a resume path configured the load comes before the first      *)
(* epoch: until it has happened the process has done no step of any epoch, *)
(* and after it the loop starts at the merged start_epoch, whatever epoch  *)
(* the loaded checkpoint stores; the load leaves start_epoch and the epoch *)
(* counter as they were.                                                   *)
(***************************************************************************)
C14_ResumeKeepsStartEpoch ==
    ResumeConfigured =>
        LET p == proc[0]
        IN  /\ p.pc \in BeforeLoop => (p.resumed = None /\ p.trace = <<>> /\ p.epoch = None)
            /\ p.trace # <<>> => (p.resumed # None /\ p.trace[1].epoch = UsedStart)
            /\ p.resumed # None =>
                  /\ p.resumed = Some(files[UsedStr("resume")].epoch)
                  /\ p.config["start_epoch"] = UsedStart
                  /\ p.epoch # None => Val(p.epoch) >= UsedStart
                  /\ p.pc = "loop" /\ p.trace = <<>> => p.epoch = None

C14_Witness ==
    /\ ResumeConfigured /\ UsedStart = 2 /\ TotalEpochs = 3
    /\ proc[0].resumed = Some(0)
    /\ proc[0].pc = "done"
    /\ proc[0].trace[1].epoch = 2

\* the process has just loaded config['resume']
JustLoaded == proc[0].pc = "loop" /\ proc[0].epoch = None /\ proc[0].resumed # None

\* the write that left the file at path as it is
LastWrite(path) ==
    LET IsPath(w) == w.path = path
        ws == SelectSeq(saved, IsPath)
    IN  ws[Len(ws)]

StepNo(op) ==
    CASE op = "set_epoch" -> 1
      [] op = "train" -> 2
      [] op = "save_checkpoint" -> 3
      [] op = "flush" -> 4
      [] op = "append_log" -> 5
      [] OTHER -> 6

(***************************************************************************)
(* C16: the steps of the loop body come in one order: set_epoch(e) if the  *)
(* run is distributed, then the training step of e, then the checkpoint of *)
(* e if the policy asks for one, then the log record of e; each at most    *)
(* once, the later ones only after the training step of e has returned,    *)
(* and every step of epoch e before every step of epoch e + 1.             *)
(***************************************************************************)
C16_EpochBodyOrder ==
    LET t == proc[0].trace
        distributed == yaml_file["ddp"].distributed
    IN  /\ \A i \in 1 .. Len(t) - 1 :
              /\ t[i].op # "save_encoder"
              /\ \/ t[i].epoch < t[i + 1].epoch /\ t[i + 1].op # "save_encoder"
                 \/ t[i].epoch = t[i + 1].epoch /\ StepNo(t[i].op) < StepNo(t[i + 1].op)
        /\ \A i \in 1 .. Len(t) :
              /\ t[i].op = "set_epoch" => distributed
              /\ t[i].op = "train" =>
                    IF distributed
                    THEN i > 1 /\ t[i - 1].op = "set_epoch" /\ t[i - 1].epoch = t[i].epoch
                    ELSE i = 1 \/ t[i - 1].epoch = t[i].epoch - 1
              /\ t[i].op \in {"save_checkpoint", "flush", "append_log"} =>
                    \E j \in 1 .. i - 1 : t[j].op = "train" /\ t[j].epoch = t[i].epoch
              /\ t[i].op = "append_log" =>
                    (ShouldCheckpoint(t[i].epoch, TotalEpochs) =>
                        \E j \in 1 .. i - 1 :
                            t[j].op = "save_checkpoint" /\ t[j].epoch = t[i].epoch)

C16_Witness ==
    /\ OutputConfigured /\ yaml_file["ddp"].distributed
    /\ UsedStart = 0 /\ TotalEpochs = 2 /\ proc[0].pc = "done"
    /\ Len(proc[0].trace) = 11
    /\ proc[0].trace[5].op = "append_log" /\ proc[0].trace[5].epoch = 0
    /\ proc[0].trace[6].op = "set_epoch" /\ proc[0].trace[6].epoch = 1

\* one process, whole runs, train.lr unset, zero or set
InitTrainLR ==
    \E od \in {"", "out"}, epochs \in 0 .. MaxEpochs, lr \in LRChoices, bs \in {1, 2},
       res \in {"", PrevCheckpoint} :
        Start(Args([NoStrs EXCEPT !["output_dir"] = od, !["resume"] = res], 0),
              Yaml(MergeKeys, [NoStrs EXCEPT !["exp_name"] = "exp"], 0,
                   FALSE, bs, "st_mem_vit_base", Train(1, lr, BaseLR, epochs)),
              1, {"loss"})

SpecTrainLR == InitTrainLR /\ [][Next]_vars

\* a step of the process from p to q changes train.lr only in the derivation, only
\* from unset, with no optimizer, no load and no epoch step yet; the optimizer is then
\* built with the value train.lr has
LRStep(p, q) ==
    (p.pc # "parse" /\ q.pc # "parse") =>
        /\ q.config["train"].lr # p.config["train"].lr =>
              /\ p.pc = "lr" /\ p.config["train"].lr = None /\ q.config["train"].lr # None
              /\ p.optimizer = None /\ q.optimizer = None
              /\ p.resumed = None /\ p.trace = <<>> /\ p.epoch = None
        /\ (p.optimizer = None /\ q.optimizer # None) =>
              /\ p.pc = "optimizer"
              /\ q.config["train"].lr # None
              /\ Val(q.optimizer).lr = q.config["train"].lr

(***************************************************************************)
(* C17: train.lr is assigned at most once in a run, only when it was       *)
(* unset, before the optimizer is built and before any load or epoch step; *)
(* the optimizer is built with that value, and from then to the end of the *)
(* run train.lr is set and does not change.                                *)
(***************************************************************************)
C17_LRDerivedOnce ==
    /\ [](proc[0].optimizer # None => proc[0].config["train"].lr # None)
    /\ [][LRStep(proc[0], proc'[0])]_vars

C17_Witness ==
    /\ yaml_file["train"].lr = None /\ yaml_file["dataloader"].batch_size = 2
    /\ proc[0].pc = "done" /\ proc[0].resumed # None /\ TotalEpochs = 2
    /\ proc[0].config["train"].lr = Some(<<3, 256000>>)

\* whole runs on a config file that has any subset of the overridable keys
InitMissing ==
    \E present \in SUBSET MergeKeys, fod \in {"", "out"}, od \in {"", "out"},
       astart \in {0, 1}, epochs \in {1, 2} :
        Start(Args([NoStrs EXCEPT !["output_dir"] = od], astart),
              Yaml(present, [NoStrs EXCEPT !["output_dir"] = fod, !["exp_name"] = "exp"], 0,
                   FALSE, 2, "st_mem_vit_base", Train(1, None, BaseLR, epochs)),
              1, {"loss"})

SpecMissing == InitMissing /\ [][Next]_vars

\* the overridable keys the config file omits and the command line leaves at a falsy value
Defaulted == {k \in MergeKeys : k \notin DOMAIN yaml_file /\ ~Given(k)}

(***************************************************************************)
(* C18 as stated: when the config file omits start_epoch, resume,          *)
(* output_dir or exp_name and the command line gives no truthy override,   *)
(* the run does not fail on the missing field and uses the command-line    *)
(* default: start_epoch 0, the others empty.                               *)
(***************************************************************************)
C18_MissingFieldDefaults ==
    Defaulted # {} =>
        /\ proc[0].err # "KeyError"
        /\ ("start_epoch" \in Defaulted /\ proc[0].trace # <<>>) => proc[0].trace[1].epoch = 0
        /\ "output_dir" \in Defaulted => (proc[0].output_dir = None /\ dirs = {})
        /\ "resume" \in Defaulted => proc[0].resumed = None

\* the records log.txt holds for epoch e
Records(e) == Cardinality({i \in 1 .. Len(log_txt) : log_txt[i]["epoch"] = e})

\* the start_epoch a command line gives a run
StartOf(args) ==
    IF args["start_epoch"] # 0 THEN args["start_epoch"] ELSE yaml_file["start_epoch"]

\* a killed first run, re-invoked with resume and start_epoch, has completed
ResumedRunDone ==
    Len(runs) = 2 /\ runs[2].kind = "resume" /\ proc[0].pc = "done"

(***************************************************************************)
(* C19 as stated: after a run is killed and re-invoked on the same output  *)
(* directory with resume at the last checkpoint written and start_epoch    *)
(* one past its epoch, log.txt holds at most one record per epoch once the *)
(* second run completes.                                                   *)
(***************************************************************************)
C19_OneRecordPerEpoch ==
    ResumedRunDone => \A e \in 0 .. MaxEpochs : Records(e) <= 1

(***************************************************************************)
(* C19, amended: log.txt holds at most one record per epoch and run.  Once *)
(* the second run completes, an epoch has one record if the killed run     *)
(* logged it and one more if it is at or past the second run's             *)
(* start_epoch: the epochs the killed run logged after its last checkpoint *)
(* have two records, and no epoch has more than two.                       *)
(***************************************************************************)
C19_OneRecordPerEpochAndRun ==
    /\ \A e \in 0 .. MaxEpochs : Records(e) <= Len(runs)
    /\ ResumedRunDone =>
          LET first == StartOf(runs[1].argv)
              killed == first .. (first + runs[2].logged - 1)
              second == StartOf(runs[2].argv) .. (TotalEpochs - 1)
          IN  \A e \in 0 .. MaxEpochs :
                  Records(e) = (IF e \in killed THEN 1 ELSE 0) + (IF e \in second THEN 1 ELSE 0)

C19_Witness ==
    /\ ResumedRunDone /\ TotalEpochs = 3
    /\ argv["resume"] = CheckpointFile(0) /\ argv["start_epoch"] = 1
    /\ Records(0) = 1 /\ Records(1) = 2 /\ Records(2) = 1
====
